---- MODULE Spec2Model ----
(***************************************************************************)
(* NewsHound backend: the channel ingestion pipeline of                    *)
(* backend/services/channel_service.py (add_channel, refresh_channel,      *)
(* remove_channel and the shared _index_channel_posts pass) together with  *)
(* the stores it drives: the PostgreSQL tables channels and posts          *)
(* (infrastructure/database), the Qdrant collection                        *)
(* (infrastructure/vectorstore/qdrant_store.py) and the Telegram history   *)
(* read by infrastructure/telegram/telethon_parser.py.                     *)
(*                                                                         *)
(* Every request (task) runs the coroutine of one service call.  A step of *)
(* the model is the code between two awaits of that coroutine, so the      *)
(* tasks of concurrent requests interleave at exactly the points where the *)
(* event loop can switch.  Each request owns one SQLAlchemy AsyncSession   *)
(* (api/dependencies.py get_db); a flush that fails leaves that session    *)
(* deactivated until rollback(), which the code never calls.  The session  *)
(* keeps the ChannelModel it loaded (expire_on_commit=False): session.get  *)
(* answers from it, and a commit writes only the columns whose new value   *)
(* differs from the loaded one.                                            *)
(*                                                                         *)
(* The question side reads the same collection: RetrievalService           *)
(* (retrieve / aretrieve), CompletionService (complete / acomplete) and    *)
(* SummaryService (generate_summary / agenerate_summary).  One question is *)
(* followed at a time (variable rag); QuerySpec, CompletionSpec and        *)
(* SummarySpec start from a filled collection and ask one question.        *)
(***************************************************************************)
EXTENDS Integers, Sequences, FiniteSets, TLC

\* ------------------------------------------------------------------ bounds
MaxMsg == 2            \* messages the Telegram channel ever publishes
MaxLimit == 1          \* largest explicit posts_limit a caller passes
MaxCalls == 3          \* requests served
MaxDocs == 2           \* documents a channel has in the collection
MaxScore == 2          \* similarity scores are 1..MaxScore
MaxK == 2              \* largest k / top_k a caller passes
MaxDate == 2           \* wall-clock times of a summary are 1..MaxDate
MaxOffset == 1         \* UTC offsets of aware datetimes are 0..MaxOffset
MaxRetries == 2        \* largest explicit max_retries of an LLM service
MaxStreamMsg == 3      \* messages of the channel a posts stream reads
MaxGroup == 2          \* media groups (albums) of that channel are 1..MaxGroup

\* --------------------------------------------------------------- constants
telegram_message_limit == 100
retrieval_k == 5
summary_k == 50
max_chars == 10000
llm_max_retries == 3

Tasks == {1, 2}

ACTIVE == "active"
PAUSED == "paused"
INDEXING == "indexing"
ERROR == "error"

\* Optional[datetime] = None; publish dates are 1, 2, ...
NoDate == 0

\* what Telegram answers for the one channel of the model
ChatUsername == "news_x"
ChatTitle == "News X"
ChatDescription == "about"

\* no Channel (get_by_username found nothing / not fetched yet)
NoChannel ==
    [id |-> 0, username |-> "", title |-> "", description |-> "", link |-> "",
     status |-> "", posts_count |-> 0, last_post_date |-> NoDate]

\* no result yet
NoResult == [kind |-> "none", value |-> 0, exc |-> ""]

\* the channels a question can be restricted to
Handles == {"news_a", "news_b"}

\* Optional[List[str]]: None, or a list
None == [given |-> FALSE, list |-> <<>>]
List(l) == [given |-> TRUE, list |-> l]

\* no response yet
NoResponse == [answer |-> "", sources |-> <<>>]

\* a datetime: its wall-clock reading and, if it is aware, its UTC offset
datetime(date, aware, utcoffset) ==
    [date |-> date, aware |-> aware, utcoffset |-> utcoffset]

\* the providers of api/dependencies.py wrapped in lru_cache(maxsize=1)
Providers ==
    {"get_embedding_service", "get_llm_service",
     "get_vectorstore_repository", "get_channel_parser"}

\* threads of the pool that runs the sync dependencies of requests
Threads == {1, 2}

IdleThread == [pc |-> "idle", provider |-> "", outer |-> "", got |-> 0]

\* nothing constructed, nothing cached, no thread in a provider
IdleServices ==
    [phase |-> "running",
     cache |-> [f \in Providers |-> 0],
     constructed |-> [f \in Providers |-> 0],
     received |-> [f \in Providers |-> {}],
     thread |-> [t \in Threads |-> IdleThread],
     naccess |-> 0]

\* no generate call in flight
IdleLLM ==
    [op |-> "none", pc |-> "idle", max_retries |-> 0, attempt |-> 0,
     invoked |-> 0, outcomes |-> <<>>, result |-> NoResult]

\* no stream in flight
IdleStream ==
    [pc |-> "idle", messages |-> <<>>, history |-> <<>>, limit |-> 0,
     i |-> 0, seen_media_groups |-> {}, fetch_failed |-> {},
     yielded |-> <<>>, result |-> NoResult]

\* no question is being answered
IdleQuery ==
    [op |-> "none", pc |-> "idle", similarity |-> <<>>, k_arg |-> 0, k |-> 0,
     channels |-> None, min_score |-> 0, i |-> 1, all_results |-> <<>>,
     results |-> <<>>, llm_calls |-> 0, response |-> NoResponse,
     result |-> NoResult, start_date |-> datetime(NoDate, FALSE, 0),
     end_date |-> datetime(NoDate, FALSE, 0), filtered_results |-> <<>>,
     news_content |-> [content_parts |-> <<>>, chars |-> 0]]

VARIABLES
    chat_history,      \* Telegram: the channel holds messages 1..chat_history
    channels,          \* table channels: set of ChannelModel rows
    next_channel_id,   \* the autoincrement sequence of channels.id
    posts,             \* table posts: set of PostModel rows
    points,            \* Qdrant collection: set of points (id + payload)
    task,              \* per request: the coroutine's position and locals
    ncalls,            \* requests that have arrived so far
    rag,               \* the question being answered: position and locals
    services,          \* the lru_cache providers and the threads using them
    llm,               \* one generate / agenerate call of the LLM service
    stream             \* one parse_channel_posts_stream run over a history

vars == <<chat_history, channels, next_channel_id, posts, points, task, ncalls,
          rag, services, llm, stream>>

\* ----------------------------------------------------------------- helpers
Min(a, b) == IF a < b THEN a ELSE b

Range(s) == {s[i] : i \in 1..Len(s)}

\* publish date of a message (Telegram ids grow with time)
DateOf(m) == m

\* posts_limit or settings.telegram_message_limit
EffectiveLimit(posts_limit) ==
    IF posts_limit = 0 THEN telegram_message_limit ELSE posts_limit

\* an id drawn afresh for every write (uuid4) instead of a derived one
DocId_uuid(username, message_id) ==
    <<username, message_id, Cardinality(points)>>

\* Document.id built by the parser: f"{channel.username}_{message_id}"
DocId(username, message_id) == <<username, message_id>>

\* the Document the parser builds for a message of the channel
Document(ch, m) ==
    [id |-> DocId(ch.username, m), channel |-> ch.username,
     message_id |-> m, date |-> DateOf(m)]

\* client.get_chat_history(chat.id, limit=limit): newest first
get_chat_history(limit) ==
    [i \in 1..Min(limit, chat_history) |-> chat_history - i + 1]

\* Channel returned by get_channel_info
get_channel_info ==
    [id |-> 0, username |-> ChatUsername, title |-> ChatTitle,
     description |-> ChatDescription, link |-> "https://t.me/news_x",
     status |-> ACTIVE, posts_count |-> 0, last_post_date |-> NoDate]

\* a lookup that finds no row
get_by_username_none(username) == NoChannel

\* AsyncChannelRepository.get_by_username
get_by_username(username) ==
    IF \E r \in channels : r.username = username
    THEN CHOOSE r \in channels : r.username = username
    ELSE NoChannel

\* a ledger that never recognises a post
exists_never(channel_id, message_id) == FALSE

\* AsyncPostRepository.exists
exists(channel_id, message_id) ==
    \E r \in posts : r.channel_id = channel_id /\ r.message_id = message_id

\* a ledger row that does not carry the message id
PostModel_no_message_id(doc, channel_id) ==
    [channel_id |-> channel_id, message_id |-> 0, published_at |-> doc.date]

\* AsyncPostRepository._to_model
PostModel(doc, channel_id) ==
    [channel_id |-> channel_id, message_id |-> doc.message_id,
     published_at |-> doc.date]

\* the columns AsyncChannelRepository.update assigns to the ChannelModel
Columns ==
    {"username", "title", "description", "link", "status", "posts_count",
     "last_post_date"}

\* the assigned columns the commit writes: those whose value differs from
\* the one the session loaded
Dirty(model, channel) == {c \in Columns : channel[c] # model[c]}

\* AsyncChannelRepository.update, the table after its commit:
\* UPDATE channels SET <dirty columns> WHERE id = model.id
update(model, channel) ==
    {IF r.id = model.id
     THEN [c \in DOMAIN r |->
              IF c \in Dirty(model, channel) THEN channel[c] ELSE r[c]]
     ELSE r : r \in channels}

\* AsyncChannelRepository.update, session.refresh(model) after the commit:
\* the ChannelModel as the table holds it now
Refreshed(model, channel) ==
    CHOOSE r \in update(model, channel) : r.id = model.id

\* the row of the session's ChannelModel is gone (another request deleted
\* it): the UPDATE matches no row, or with nothing to write the refresh
\* finds none
RowGone(model) == ~ \E r \in channels : r.id = model.id

RowGoneError(model, channel) ==
    IF Dirty(model, channel) # {} THEN "StaleDataError"
    ELSE "InvalidRequestError"

RowGoneSession(model, channel, session) ==
    IF Dirty(model, channel) # {} THEN "deactive" ELSE session

\* only full batches are uploaded, the remainder is dropped
add_documents_full_batches(documents) == points

\* QdrantVectorStoreRepository.add_documents: upsert by point id
add_documents(documents) ==
    {q \in points : \A i \in 1..Len(documents) : documents[i].id # q.id}
        \cup Range(documents)

\* QdrantVectorStoreRepository.delete_documents(filter_dict={"channel": u})
delete_documents(username) == {q \in points : q.channel # username}

\* AsyncPostRepository.delete_by_channel
delete_by_channel(channel_id) == {r \in posts : r.channel_id # channel_id}

\* idx_post_channel_message (unique) and the posts.channel_id foreign key:
\* what makes the flush of bulk_create fail
BulkCreateViolation(documents, channel_id) ==
    \/ \E i \in 1..Len(documents), r \in posts :
          r.channel_id = channel_id /\ r.message_id = documents[i].message_id
    \/ \E i, j \in 1..Len(documents) :
          i # j /\ documents[i].message_id = documents[j].message_id
    \/ ~ \E r \in channels : r.id = channel_id

\* ------------------------------------------------------------------- tasks
\* the stores as a request finds them on arrival, recorded when no other
\* request is in flight (for the pre/post statements about one call)
Snapshot ==
    [chat_history |-> chat_history, channels |-> channels, posts |-> posts,
     points |-> points]

NoSnapshot == [chat_history |-> 0, channels |-> {}, posts |-> {}, points |-> {}]

IdleTask ==
    [op |-> "none", pc |-> "idle", index_posts |-> FALSE, limit |-> 0,
     channel_info |-> NoChannel, channel |-> NoChannel,
     model |-> NoChannel, offset_date |-> NoDate, todo |-> <<>>, yielded |-> 0,
     documents |-> <<>>, last_post_date |-> NoDate, new_posts |-> 0,
     session |-> "active", result |-> NoResult, pre |-> NoSnapshot]

Init ==
    /\ chat_history = 0
    /\ channels = {}
    /\ next_channel_id = 1
    /\ posts = {}
    /\ points = {}
    /\ task = [p \in Tasks |-> IdleTask]
    /\ ncalls = 0
    /\ rag = IdleQuery
    /\ services = IdleServices
    /\ llm = IdleLLM
    /\ stream = IdleStream

\* a task slot is free before its first request and after each one
Free(p) == task[p].pc = "idle"

Quiescent == \A p \in Tasks : Free(p)

\* requests take the lowest free slot first (the slots are interchangeable)
Arrives(p) ==
    /\ Free(p)
    /\ \A q \in Tasks : q < p => ~Free(q)
    /\ ncalls < MaxCalls
    /\ ncalls' = ncalls + 1

\* the locals of a call that has just arrived
NewTask(op, index_posts, posts_limit) ==
    [IdleTask EXCEPT !.op = op, !.index_posts = index_posts,
                     !.limit = posts_limit,
                     !.pre = IF Quiescent THEN Snapshot ELSE NoSnapshot]

\* the call is over: only what it was, what it saw on arrival, the Channel
\* object it held and its outcome are kept
Finished(p, channel, session, result) ==
    task' = [task EXCEPT ![p] =
        [IdleTask EXCEPT !.op = task[p].op, !.pc = "done",
                         !.index_posts = task[p].index_posts,
                         !.limit = task[p].limit,
                         !.channel_info = task[p].channel_info,
                         !.channel = channel, !.session = session,
                         !.result = result, !.pre = task[p].pre]]

Returned(value) == [kind |-> "returned", value |-> value, exc |-> ""]

Raised(exc) == [kind |-> "raised", value |-> 0, exc |-> exc]

Raise(p, exc, session) == Finished(p, task[p].channel, session, Raised(exc))

\* Telegram publishes one more message
Publish ==
    /\ chat_history < MaxMsg
    /\ chat_history' = chat_history + 1
    /\ UNCHANGED <<channels, next_channel_id, posts, points, task, ncalls, rag,
                 services, llm, stream>>

\* out of band (operator): AsyncChannelRepository.update_status(id, "paused")
update_status ==
    /\ \E r \in channels :
          /\ r.status \in {ACTIVE, ERROR}
          /\ channels' = (channels \ {r}) \cup {[r EXCEPT !.status = PAUSED]}
    /\ UNCHANGED <<chat_history, next_channel_id, posts, points, task, ncalls, rag,
                 services, llm, stream>>

\* ------------------------------------------------------------- add_channel
\* the count is set and the status left as it was
indexed_count_only(channel, posts_count) ==
    [channel EXCEPT !.posts_count = posts_count]

\* channel.posts_count = posts_count; channel.status = ChannelStatus.ACTIVE
indexed(channel, posts_count) ==
    [channel EXCEPT !.posts_count = posts_count, !.status = ACTIVE]

\* the count is overwritten with the pass's count
refreshed_assigns(channel, new_posts_count) ==
    [channel EXCEPT !.posts_count = new_posts_count]

\* the count is raised and the status set to ACTIVE
refreshed_activates(channel, new_posts_count) ==
    [channel EXCEPT !.posts_count = @ + new_posts_count, !.status = ACTIVE]

\* channel.posts_count += new_posts_count
refreshed(channel, new_posts_count) ==
    [channel EXCEPT !.posts_count = @ + new_posts_count]

\* the call and its first await, parser.get_channel_info: Telegram answers
\* or the parser raises TelegramParserException
add_channel(p, index_posts, posts_limit) ==
    /\ Arrives(p)
    /\ LET t == NewTask("add_channel", index_posts,
                        EffectiveLimit(posts_limit))
       IN \/ task' = [task EXCEPT ![p] =
                 [t EXCEPT !.pc = "add_get_by_username",
                           !.channel_info = get_channel_info]]
          \/ task' = [task EXCEPT ![p] =
                 [t EXCEPT !.pc = "done",
                           !.result = Raised("TelegramParserException")]]
    /\ UNCHANGED <<chat_history, channels, next_channel_id, posts, points, rag,
                 services, llm, stream>>

\* existing = get_by_username(channel_info.username); if existing: raise
AddGetByUsername(p) ==
    /\ task[p].pc = "add_get_by_username"
    /\ IF get_by_username(task[p].channel_info.username) # NoChannel
       THEN Raise(p, "ChannelAlreadyExistsException", task[p].session)
       ELSE task' = [task EXCEPT ![p].pc = "add_create"]
    /\ UNCHANGED <<chat_history, channels, next_channel_id, posts, points, ncalls, rag,
                 services, llm, stream>>

\* channel = await channel_repo.create(channel): INSERT with status INDEXING;
\* the unique index on channels.username fails the flush when another request
\* inserted the handle since the lookup
AddCreate(p) ==
    /\ task[p].pc = "add_create"
    /\ IF \E r \in channels : r.username = task[p].channel_info.username
       THEN /\ Raise(p, "IntegrityError", "deactive")
            /\ UNCHANGED <<channels, next_channel_id>>
       ELSE LET row == [task[p].channel_info EXCEPT !.id = next_channel_id,
                                                    !.status = INDEXING]
            IN /\ channels' = channels \cup {row}
               /\ next_channel_id' = next_channel_id + 1
               /\ task' = [task EXCEPT
                      ![p].channel = row,
                      ![p].model = row,
                      ![p].pc = IF task[p].index_posts
                                THEN "parse_stream" ELSE "add_activate"]
    /\ UNCHANGED <<chat_history, posts, points, ncalls, rag,
                 services, llm, stream>>

\* else-branch of index_posts: status = ACTIVE; update
AddActivate(p) ==
    /\ task[p].pc = "add_activate"
    /\ LET m == task[p].model
           ch == [task[p].channel EXCEPT !.status = ACTIVE]
       IN IF RowGone(m)
          THEN /\ Raise(p, RowGoneError(m, ch),
                        RowGoneSession(m, ch, task[p].session))
               /\ UNCHANGED channels
          ELSE \/ /\ channels' = update(m, ch)
                  /\ Finished(p, Refreshed(m, ch), task[p].session,
                              Returned(Refreshed(m, ch).posts_count))
               \/ /\ Raise(p, "OperationalError", "deactive")
                  /\ UNCHANGED channels
    /\ UNCHANGED <<chat_history, next_channel_id, posts, points, ncalls, rag,
                 services, llm, stream>>

\* ---------------------------------------------------- _index_channel_posts
\* an exception leaving the pass (its locals go with it): add_channel
\* catches it (except Exception), refresh_channel lets it through
PassRaise(p, exc, session) ==
    IF task[p].op = "add_channel"
    THEN task' = [task EXCEPT ![p].pc = "add_except", ![p].session = session,
                              ![p].todo = <<>>, ![p].yielded = 0,
                              ![p].documents = <<>>,
                              ![p].last_post_date = NoDate]
    ELSE Raise(p, exc, session)

\* parse_channel_posts_stream up to the first message: connect and get_chat
\* (either may raise TelegramParserException), then get_chat_history, whose
\* offset_date argument is commented out
ParseStreamStart(p) ==
    /\ task[p].pc = "parse_stream"
    /\ \/ task' = [task EXCEPT ![p].todo = get_chat_history(task[p].limit),
                               ![p].yielded = 0,
                               ![p].documents = <<>>,
                               ![p].last_post_date = NoDate,
                               ![p].pc = "iterate"]
       \/ PassRaise(p, "TelegramParserException", task[p].session)
    /\ UNCHANGED <<chat_history, channels, next_channel_id, posts, points, ncalls, rag,
                 services, llm, stream>>

\* one turn of "async for doc in parse_channel_posts_stream(...)": the
\* parser yields the next document (or raises), the ledger is asked whether
\* it is known, an unknown document is buffered and its date tracked
IndexIterate(p) ==
    /\ task[p].pc = "iterate"
    /\ task[p].todo # <<>>
    /\ \/ LET t == task[p]
              doc == Document(t.channel, Head(t.todo))
              known == doc.message_id # 0 /\ exists(t.channel.id, doc.message_id)
              yielded == t.yielded + 1
              rest == IF yielded >= t.limit THEN <<>> ELSE Tail(t.todo)
          IN task' = [task EXCEPT
                 ![p].todo = rest,
                 ![p].yielded = yielded,
                 ![p].documents = IF known THEN t.documents
                                  ELSE Append(t.documents, doc),
                 ![p].last_post_date =
                     IF known THEN t.last_post_date
                     ELSE IF doc.date # NoDate
                             /\ (t.last_post_date = NoDate
                                 \/ doc.date > t.last_post_date)
                          THEN doc.date ELSE t.last_post_date]
       \/ PassRaise(p, "TelegramParserException", task[p].session)
    /\ UNCHANGED <<chat_history, channels, next_channel_id, posts, points, ncalls, rag,
                 services, llm, stream>>

\* the stream is exhausted; if documents: await vectorstore.aadd_documents
IndexAddDocuments(p) ==
    /\ task[p].pc = "iterate"
    /\ task[p].todo = <<>>
    /\ IF task[p].documents = <<>>
       THEN /\ task' = [task EXCEPT ![p].pc = "watermark"]
            /\ UNCHANGED points
       ELSE \/ /\ points' = add_documents(task[p].documents)
               /\ task' = [task EXCEPT ![p].pc = "bulk_create"]
            \/ /\ PassRaise(p, "VectorStoreException", task[p].session)
               /\ UNCHANGED points
    /\ UNCHANGED <<chat_history, channels, next_channel_id, posts, ncalls, rag,
                 services, llm, stream>>

\* await post_repo.bulk_create(documents, channel.id): add_all + commit
IndexBulkCreate(p) ==
    /\ task[p].pc = "bulk_create"
    /\ LET t == task[p]
       IN IF BulkCreateViolation(t.documents, t.channel.id)
          THEN /\ PassRaise(p, "IntegrityError", "deactive")
               /\ UNCHANGED posts
          ELSE \/ /\ posts' = posts \cup
                         {PostModel(t.documents[i], t.channel.id) :
                              i \in 1..Len(t.documents)}
                  /\ task' = [task EXCEPT ![p].pc = "watermark"]
               \/ /\ PassRaise(p, "OperationalError", "deactive")
                  /\ UNCHANGED posts
    /\ UNCHANGED <<chat_history, channels, next_channel_id, points, ncalls, rag,
                 services, llm, stream>>

\* if last_post_date: channel.last_post_date = last_post_date; update;
\* return len(documents)
IndexWatermark(p) ==
    /\ task[p].pc = "watermark"
    /\ LET t == task[p]
           next == IF t.op = "add_channel" THEN "add_finish"
                   ELSE "refresh_finish"
       IN IF t.last_post_date # NoDate
          THEN LET ch == [t.channel EXCEPT !.last_post_date = t.last_post_date]
               IN IF RowGone(t.model)
                  THEN /\ PassRaise(p, RowGoneError(t.model, ch),
                                    RowGoneSession(t.model, ch, t.session))
                       /\ UNCHANGED channels
                  ELSE \/ /\ channels' = update(t.model, ch)
                          /\ task' = [task EXCEPT
                                 ![p].channel = ch,
                                 ![p].model = Refreshed(t.model, ch),
                                 ![p].new_posts = Len(t.documents),
                                 ![p].pc = next]
                       \/ /\ PassRaise(p, "OperationalError", "deactive")
                          /\ UNCHANGED channels
          ELSE /\ task' = [task EXCEPT ![p].new_posts = Len(t.documents),
                                       ![p].pc = next]
               /\ UNCHANGED channels
    /\ UNCHANGED <<chat_history, next_channel_id, posts, points, ncalls, rag,
                 services, llm, stream>>

\* ------------------------------------------------- add_channel, continued
\* posts_count = the pass's count; status = ACTIVE; update (inside the try)
AddFinish(p) ==
    /\ task[p].pc = "add_finish"
    /\ LET m == task[p].model
           ch == indexed(task[p].channel, task[p].new_posts)
       IN IF RowGone(m)
          THEN /\ PassRaise(p, RowGoneError(m, ch),
                            RowGoneSession(m, ch, task[p].session))
               /\ UNCHANGED channels
          ELSE \/ /\ channels' = update(m, ch)
                  /\ Finished(p, Refreshed(m, ch), task[p].session,
                              Returned(Refreshed(m, ch).posts_count))
               \/ /\ PassRaise(p, "OperationalError", "deactive")
                  /\ UNCHANGED channels
    /\ UNCHANGED <<chat_history, next_channel_id, posts, points, ncalls, rag,
                 services, llm, stream>>

\* except Exception: status = ERROR; await update(channel); raise
\* TelegramParserException.  A deactivated session refuses the update
\* (PendingRollbackError) before anything is written and before the raise
\* statement is reached
AddExcept(p) ==
    /\ task[p].pc = "add_except"
    /\ LET m == task[p].model
           ch == [task[p].channel EXCEPT !.status = ERROR]
       IN IF task[p].session = "deactive"
          THEN /\ Finished(p, ch, "deactive", Raised("PendingRollbackError"))
               /\ UNCHANGED channels
          ELSE IF RowGone(m)
          THEN /\ Finished(p, ch, RowGoneSession(m, ch, task[p].session),
                           Raised(RowGoneError(m, ch)))
               /\ UNCHANGED channels
          ELSE /\ channels' = update(m, ch)
               /\ Finished(p, ch, task[p].session,
                           Raised("TelegramParserException"))
    /\ UNCHANGED <<chat_history, next_channel_id, posts, points, ncalls, rag,
                 services, llm, stream>>

\* --------------------------------------------------------- refresh_channel
\* the call with its lookup: channel = get_by_username(username); if not
\* channel: raise ChannelNotFoundException; the pass is then started with
\* offset_date = channel.last_post_date
refresh_channel(p, posts_limit) ==
    /\ Arrives(p)
    /\ LET ch == get_by_username(ChatUsername)
           t == NewTask("refresh_channel", FALSE, EffectiveLimit(posts_limit))
       IN IF ch = NoChannel
          THEN task' = [task EXCEPT ![p] =
                   [t EXCEPT !.pc = "done",
                             !.result = Raised("ChannelNotFoundException")]]
          ELSE task' = [task EXCEPT ![p] =
                   [t EXCEPT !.pc = "parse_stream", !.channel = ch,
                             !.model = ch,
                             !.offset_date = ch.last_post_date]]
    /\ UNCHANGED <<chat_history, channels, next_channel_id, posts, points, rag,
                 services, llm, stream>>

\* channel.posts_count += new_posts_count; update; return new_posts_count
RefreshFinish(p) ==
    /\ task[p].pc = "refresh_finish"
    /\ LET m == task[p].model
           ch == refreshed(task[p].channel, task[p].new_posts)
       IN IF RowGone(m)
          THEN /\ Raise(p, RowGoneError(m, ch),
                        RowGoneSession(m, ch, task[p].session))
               /\ UNCHANGED channels
          ELSE \/ /\ channels' = update(m, ch)
                  /\ Finished(p, ch, task[p].session,
                              Returned(task[p].new_posts))
               \/ /\ Raise(p, "OperationalError", "deactive")
                  /\ UNCHANGED channels
    /\ UNCHANGED <<chat_history, next_channel_id, posts, points, ncalls, rag,
                 services, llm, stream>>

\* ---------------------------------------------------------- remove_channel
\* the row deleted first, the VectorIndex documents last
remove_order_row_first == <<"delete", "delete_by_channel", "delete_documents">>

\* the three deletions of remove_channel, in the order of its statements
remove_order == <<"delete_documents", "delete_by_channel", "delete">>

\* after the deletion named by pc: the next one, or the return
RemoveAfter(pc) ==
    LET i == CHOOSE k \in 1..Len(remove_order) : remove_order[k] = pc
    IN IF i < Len(remove_order) THEN remove_order[i + 1] ELSE "done"

\* control leaves one deletion of remove_channel
RemoveStep(p) ==
    IF RemoveAfter(task[p].pc) = "done"
    THEN Finished(p, task[p].channel, task[p].session, Returned(1))
    ELSE task' = [task EXCEPT ![p].pc = RemoveAfter(task[p].pc)]

\* the call with its lookup
remove_channel(p) ==
    /\ Arrives(p)
    /\ LET ch == get_by_username(ChatUsername)
           t == NewTask("remove_channel", FALSE, 0)
       IN IF ch = NoChannel
          THEN task' = [task EXCEPT ![p] =
                   [t EXCEPT !.pc = "done",
                             !.result = Raised("ChannelNotFoundException")]]
          ELSE task' = [task EXCEPT ![p] =
                   [t EXCEPT !.pc = remove_order[1], !.channel = ch,
                             !.model = ch]]
    /\ UNCHANGED <<chat_history, channels, next_channel_id, posts, points, rag,
                 services, llm, stream>>

\* vectorstore.delete_documents(filter_dict={"channel": username})
RemoveDeleteDocuments(p) ==
    /\ task[p].pc = "delete_documents"
    /\ \/ /\ points' = delete_documents(task[p].channel.username)
          /\ RemoveStep(p)
       \/ /\ Raise(p, "VectorStoreException", task[p].session)
          /\ UNCHANGED points
    /\ UNCHANGED <<chat_history, channels, next_channel_id, posts, ncalls, rag,
                 services, llm, stream>>

\* await post_repo.delete_by_channel(channel.id)
RemoveDeleteByChannel(p) ==
    /\ task[p].pc = "delete_by_channel"
    /\ \/ /\ posts' = delete_by_channel(task[p].channel.id)
          /\ RemoveStep(p)
       \/ /\ Raise(p, "OperationalError", "deactive")
          /\ UNCHANGED posts
    /\ UNCHANGED <<chat_history, channels, next_channel_id, points, ncalls, rag,
                 services, llm, stream>>

\* await channel_repo.delete(channel.id); return True.  Deleting the row
\* takes its posts with it (relationship cascade, ON DELETE CASCADE)
RemoveDelete(p) ==
    /\ task[p].pc = "delete"
    /\ \/ /\ channels' = {r \in channels : r.id # task[p].channel.id}
          /\ posts' = delete_by_channel(task[p].channel.id)
          /\ RemoveStep(p)
       \/ /\ Raise(p, "OperationalError", "deactive")
          /\ UNCHANGED <<channels, posts>>
    /\ UNCHANGED <<chat_history, next_channel_id, points, ncalls, rag,
                 services, llm, stream>>

\* the request's task is cancelled while suspended at an await:
\* CancelledError is raised there, it is no Exception, so no handler of the
\* service runs and nothing more is written
Cancel(p) ==
    /\ task[p].pc \notin {"idle", "done"}
    /\ Raise(p, "CancelledError", task[p].session)
    /\ UNCHANGED <<chat_history, channels, next_channel_id, posts, points, ncalls, rag,
                 services, llm, stream>>

\* the response has been sent: the request's session is closed and its
\* locals are gone
Return(p) ==
    /\ task[p].pc = "done"
    /\ task' = [task EXCEPT ![p] = IdleTask]
    /\ UNCHANGED <<chat_history, channels, next_channel_id, posts, points, ncalls, rag,
                 services, llm, stream>>

\* ----------------------------------------------------------- specification
Limits == 0..MaxLimit

\* a new request arrives
Call(p) ==
    \/ \E index_posts \in BOOLEAN, posts_limit \in Limits :
           add_channel(p, index_posts, posts_limit)
    \/ \E posts_limit \in Limits : refresh_channel(p, posts_limit)
    \/ remove_channel(p)

\* a request in flight gets past its next await
Step(p) ==
    \/ AddGetByUsername(p)
    \/ AddCreate(p)
    \/ AddActivate(p)
    \/ ParseStreamStart(p)
    \/ IndexIterate(p)
    \/ IndexAddDocuments(p)
    \/ IndexBulkCreate(p)
    \/ IndexWatermark(p)
    \/ AddFinish(p)
    \/ AddExcept(p)
    \/ RefreshFinish(p)
    \/ RemoveDeleteDocuments(p)
    \/ RemoveDeleteByChannel(p)
    \/ RemoveDelete(p)
    \/ Cancel(p)
    \/ Return(p)

\* requests arrive at any time and interleave at their awaits
Next ==
    \/ Publish
    \/ update_status
    \/ \E p \in Tasks : Call(p)
    \/ \E p \in Tasks : Step(p)

Spec == Init /\ [][Next]_vars

\* callers serialize: a request arrives, and the outside world moves, only
\* while no other request is in flight
SerialNext ==
    \/ Quiescent /\ Publish
    \/ Quiescent /\ update_status
    \/ \E p \in Tasks : Quiescent /\ Call(p)
    \/ \E p \in Tasks : Step(p)

SerialSpec == Init /\ [][SerialNext]_vars

\* ------------------------------------------------------- answering questions
\* The collection a question is asked against: channel c holds the documents
\* of its messages 1..n[c].
Collection(n) ==
    UNION {{Document([username |-> c], m) : m \in 1..n[c]} : c \in Handles}

Collections == {Collection(n) : n \in [Handles -> 0..MaxDocs]}

\* A question is modelled by what its embedding does: the cosine score it
\* gives to each point of the collection.
Scores == 1..MaxScore

Questions == [points -> Scores]

SearchResult(document, score) == [document |-> document, score |-> score]

\* Qdrant answers the limit best hits, best first; the order of hits with
\* equal score is not specified, so any such ranking can be the answer.
RECURSIVE query_points(_, _, _)
query_points(hits, similarity, limit) ==
    IF limit = 0 \/ hits = {} THEN {<<>>}
    ELSE LET best == {d \in hits :
                         \A e \in hits : similarity[d] >= similarity[e]}
         IN  UNION {{<<SearchResult(d, similarity[d])>> \o rest :
                        rest \in query_points(hits \ {d}, similarity,
                                              limit - 1)} :
                    d \in best}

\* filter_dict is None (<<>>) or {"channel": c} (<<c>>): every condition must
\* match
search(similarity, k, filter_dict) ==
    query_points({d \in points :
                     \A j \in 1..Len(filter_dict) : d.channel = filter_dict[j]},
                 similarity, k)

\* k = k or settings.retrieval_k
k_or_default(k) == IF k = 0 THEN retrieval_k ELSE k

\* if channels:  (the argument channels is of_channels here)
Truthy(of_channels) == of_channels.given /\ of_channels.list # <<>>

\* all_results.sort(key=lambda x: x.score, reverse=True): a stable sort
RECURSIVE sort_by_score(_)
sort_by_score(s) ==
    IF s = <<>> THEN <<>>
    ELSE LET sorted == sort_by_score(SubSeq(s, 1, Len(s) - 1))
             x == s[Len(s)]
             n == Cardinality({a \in 1..Len(sorted) :
                                  sorted[a].score >= x.score})
         IN  SubSeq(sorted, 1, n) \o <<x>> \o SubSeq(sorted, n + 1, Len(sorted))

\* all_results[:k]
merged(all_results, k) ==
    SubSeq(sort_by_score(all_results), 1, Min(k, Len(all_results)))

\* if min_score > 0: keep the results with score >= min_score
above_min_score(results, min_score) ==
    IF min_score > 0
    THEN SelectSeq(results, LAMBDA r : r.score >= min_score)
    ELSE results

\* the locals of a retrieval that starts
Retrieving(op, similarity, k, of_channels, min_score) ==
    [IdleQuery EXCEPT !.op = op,
                      !.pc = IF Truthy(of_channels) THEN "fan_out" ELSE "search",
                      !.similarity = similarity, !.k_arg = k,
                      !.k = k_or_default(k), !.channels = of_channels,
                      !.min_score = min_score]

\* retrieval hands its results to its caller
Retrieved(results) ==
    IF rag.op \in {"retrieve", "aretrieve"}
    THEN [rag EXCEPT !.pc = "done", !.results = results,
                     !.result = Returned(Len(results))]
    ELSE [rag EXCEPT !.pc = "context", !.results = results]

\* an exception leaves the call: nothing here catches it
QueryRaise(exc) == [rag EXCEPT !.pc = "done", !.result = Raised(exc)]

QueryFrame ==
    UNCHANGED <<chat_history, channels, next_channel_id, posts, points, task,
                ncalls, services, llm, stream>>

\* RetrievalService.retrieve / aretrieve is called
retrieve(op, similarity, k, of_channels, min_score) ==
    /\ rag.pc = "idle"
    /\ rag' = Retrieving(op, similarity, k, of_channels, min_score)
    /\ QueryFrame

\* else-branch: one search over the whole collection
RetrieveSearch ==
    /\ rag.pc = "search"
    /\ \/ \E results \in search(rag.similarity, rag.k, <<>>) :
              rag' = Retrieved(above_min_score(results, rag.min_score))
       \/ rag' = QueryRaise("VectorStoreException")
    /\ QueryFrame

\* for channel in channels: one filtered search, then merge after the last
RetrieveFanOut ==
    /\ rag.pc = "fan_out"
    /\ \/ \E channel_results \in
                search(rag.similarity, rag.k, <<rag.channels.list[rag.i]>>) :
              LET all_results == rag.all_results \o channel_results
              IN  IF rag.i < Len(rag.channels.list)
                  THEN rag' = [rag EXCEPT !.i = rag.i + 1,
                                          !.all_results = all_results]
                  ELSE rag' = [Retrieved(above_min_score(
                                   merged(all_results, rag.k), rag.min_score))
                               EXCEPT !.all_results = all_results]
       \/ rag' = QueryRaise("VectorStoreException")
    /\ QueryFrame

\* the channels arguments callers pass
ChannelLists ==
    {<<>>} \cup {<<a>> : a \in Handles} \cup {<<a, b>> : a, b \in Handles}

ChannelArgs == {None} \cup {List(l) : l \in ChannelLists}

QueryInit ==
    /\ chat_history = 0
    /\ channels = {}
    /\ next_channel_id = 1
    /\ posts = {}
    /\ points \in Collections
    /\ task = [p \in Tasks |-> IdleTask]
    /\ ncalls = 0
    /\ rag = IdleQuery
    /\ services = IdleServices
    /\ llm = IdleLLM
    /\ stream = IdleStream

RetrieveCall ==
    /\ rag.pc = "idle"
    /\ \E op \in {"retrieve", "aretrieve"}, similarity \in Questions,
          k \in 0..MaxK, of_channels \in ChannelArgs,
          min_score \in 0..MaxScore :
           retrieve(op, similarity, k, of_channels, min_score)

QueryNext ==
    \/ RetrieveCall
    \/ RetrieveSearch
    \/ RetrieveFanOut

QuerySpec == QueryInit /\ [][QueryNext]_vars

\* the fixed answer of a completion that found nothing
NoInformation == "no relevant information"

\* what the model produced
Generated == "generated"

\* not search_results
no_results_never(search_results) == FALSE

no_results(search_results) == search_results = <<>>

\* _build_sources: one SourceReference per result, in order
build_sources(results) ==
    [a \in 1..Len(results) |->
        LET metadata == results[a].document
        IN  [channel |-> IF metadata.channel = "" THEN "unknown"
                         ELSE metadata.channel,
             date |-> metadata.date,
             post_id |-> metadata.message_id,
             relevance_score |-> results[a].score]]

\* CompletionService.complete / acomplete is called: it starts a retrieval
\* with k = request.top_k, the request's channels and the default min_score
complete(op, similarity, top_k, of_channels) ==
    /\ rag.pc = "idle"
    /\ rag' = Retrieving(op, similarity, top_k, of_channels, 0)
    /\ QueryFrame

\* the retrieval has returned: if not search_results, answer without the
\* model, else go on to generate_with_context
CompleteContext ==
    /\ rag.pc = "context"
    /\ IF no_results(rag.results)
       THEN rag' = [rag EXCEPT !.pc = "done", !.result = Returned(0),
                               !.response = [answer |-> NoInformation,
                                             sources |-> <<>>]]
       ELSE rag' = [rag EXCEPT !.pc = "generate"]
    /\ QueryFrame

\* generate_with_context / agenerate_with_context answers or raises
CompleteGenerate ==
    /\ rag.pc = "generate"
    /\ \/ rag' = [rag EXCEPT !.pc = "done", !.llm_calls = rag.llm_calls + 1,
                             !.result = Returned(Len(rag.results)),
                             !.response = [answer |-> Generated,
                                           sources |->
                                               build_sources(rag.results)]]
       \/ \E exc \in {"LLMTimeoutException", "LLMRateLimitException",
                      "LLMException"} :
              rag' = [QueryRaise(exc) EXCEPT !.llm_calls = rag.llm_calls + 1]
    /\ QueryFrame

\* CompletionRequest: top_k has ge=1
CompleteCall ==
    /\ rag.pc = "idle"
    /\ \E op \in {"complete", "acomplete"}, similarity \in Questions,
          top_k \in 1..MaxK, of_channels \in ChannelArgs :
           complete(op, similarity, top_k, of_channels)

CompletionNext ==
    \/ CompleteCall
    \/ RetrieveSearch
    \/ RetrieveFanOut
    \/ CompleteContext
    \/ CompleteGenerate

CompletionSpec == QueryInit /\ [][CompletionNext]_vars

\* ------------------------------------------------------------------ summary
\* The collection a summary is asked over: at most one document per channel;
\* a document carries no date, a naive date or an aware one.
Offsets == 0..MaxOffset

Datetimes ==
    {datetime(date, FALSE, 0) : date \in 1..MaxDate}
        \cup {datetime(date, TRUE, utcoffset) :
                 date \in 1..MaxDate, utcoffset \in Offsets}

DocDates == {datetime(NoDate, FALSE, 0)} \cup Datetimes

DatedDocument(channel, t) ==
    [id |-> DocId(channel, 1), channel |-> channel, message_id |-> 1,
     date |-> t.date, aware |-> t.aware, utcoffset |-> t.utcoffset,
     content_chars |-> 1]

DatedCollections ==
    {{DatedDocument(c, t[c]) : c \in H} :
        H \in SUBSET Handles, t \in [Handles -> DocDates]}

\* d.replace(tzinfo=None) if d.tzinfo else d: the wall-clock reading stays
replace_tzinfo_none(d) ==
    IF d.aware THEN [d EXCEPT !.aware = FALSE, !.utcoffset = 0] ELSE d

\* start_naive <= doc_date_naive <= end_naive
in_period_naive(doc_date, start_date, end_date) ==
    /\ replace_tzinfo_none(start_date).date
          <= replace_tzinfo_none(doc_date).date
    /\ replace_tzinfo_none(doc_date).date
          <= replace_tzinfo_none(end_date).date

\* one round of the loop of _filter_by_period: is the result appended?
kept(document, start_date, end_date, of_channels) ==
    /\ document.date # NoDate =>
          in_period_naive(document, start_date, end_date)
    /\ Truthy(of_channels) =>
          ~(document.channel # ""
              /\ document.channel \notin Range(of_channels.list))

filter_by_period(results, start_date, end_date, of_channels) ==
    SelectSeq(results,
              LAMBDA r : kept(r.document, start_date, end_date, of_channels))

\* len(part) for part = f"[{channel}, {date_str}]\n{result.content}\n", where
\* channel is a handle of 6 characters or "unknown" and date_str is
\* dd.mm.YYYY or "N/A"
part_chars(document) ==
    LET channel_chars == IF document.channel = "" THEN 7 ELSE 6
        date_chars == IF document.date # NoDate THEN 10 ELSE 3
    IN  1 + channel_chars + 2 + date_chars + 2 + document.content_chars + 1

\* the loop of _prepare_news_content from result i on: parts are appended
\* until one would take total_chars over max_chars
RECURSIVE content_parts(_, _, _)
content_parts(results, i, total_chars) ==
    IF i > Len(results) THEN <<>>
    ELSE LET part == part_chars(results[i].document)
         IN  IF total_chars + part > max_chars THEN <<>>
             ELSE <<results[i].document>>
                      \o content_parts(results, i + 1, total_chars + part)

RECURSIVE sum_chars(_)
sum_chars(parts) ==
    IF parts = <<>> THEN 0
    ELSE part_chars(parts[1]) + sum_chars(SubSeq(parts, 2, Len(parts)))

\* len("\n---\n".join(content_parts))
joined_chars(parts) ==
    IF parts = <<>> THEN 0 ELSE sum_chars(parts) + 5 * (Len(parts) - 1)

\* _prepare_news_content: the documents put in the prompt and its length
prepare_news_content(results) ==
    LET parts == content_parts(results, 1, 0)
    IN  [content_parts |-> parts, chars |-> joined_chars(parts)]

\* _format_period: the two days, without time of day or zone
format_period(start_date, end_date) == <<start_date.date, end_date.date>>

\* the fixed digest of a period without news
NoNews(period_str) ==
    [summary |-> <<"no news", period_str>>, posts_processed |-> 0,
     topics |-> <<>>, channels_included |-> <<>>]

\* if not filtered_results:
no_news_never(filtered_results) == FALSE

no_news(filtered_results) == filtered_results = <<>>

\* list(set(r.metadata.channel for r in filtered_results if
\* r.metadata.channel)): the set in some order
channels_included(filtered_results) ==
    LET included == {r.document.channel : r \in Range(filtered_results)}
                        \ {""}
        n == Cardinality(included)
    IN  {l \in [1..n -> included] :
            \A a, b \in 1..n : a # b => l[a] # l[b]}

\* The summary reads no score.  Under a question for which all documents
\* tie, every order of the results is a possible answer of the search.
AllTie == [d \in points |-> MaxScore]

\* SummaryService.generate_summary / agenerate_summary is called
generate_summary(op, start_date, end_date, of_channels) ==
    /\ rag.pc = "idle"
    /\ rag' = [IdleQuery EXCEPT !.op = op, !.pc = "summary_search",
                                !.start_date = start_date,
                                !.end_date = end_date,
                                !.channels = of_channels]
    /\ QueryFrame

\* the search for the period's news answers; the results are filtered and,
\* if none is left, the fixed digest is returned, else the prompt is built
SummarySearch ==
    /\ rag.pc = "summary_search"
    /\ \/ \E results \in search(AllTie, summary_k, <<>>) :
              LET filtered_results ==
                      filter_by_period(results, rag.start_date, rag.end_date,
                                       rag.channels)
              IN  IF no_news(filtered_results)
                  THEN rag' = [rag EXCEPT
                                 !.pc = "done", !.results = results,
                                 !.filtered_results = filtered_results,
                                 !.result = Returned(0),
                                 !.response =
                                     NoNews(format_period(rag.start_date,
                                                          rag.end_date))]
                  ELSE rag' = [rag EXCEPT
                                 !.pc = "summarize", !.results = results,
                                 !.filtered_results = filtered_results,
                                 !.news_content =
                                     prepare_news_content(filtered_results)]
       \/ rag' = QueryRaise("VectorStoreException")
    /\ QueryFrame

\* llm.generate / agenerate answers or raises; the response is built
SummaryGenerate ==
    /\ rag.pc = "summarize"
    /\ \/ \E included \in channels_included(rag.filtered_results) :
              rag' = [rag EXCEPT
                        !.pc = "done", !.llm_calls = rag.llm_calls + 1,
                        !.result = Returned(Len(rag.filtered_results)),
                        !.response =
                            [summary |-> Generated,
                             posts_processed |-> Len(rag.filtered_results),
                             topics |-> <<>>,
                             channels_included |-> included]]
       \/ \E exc \in {"LLMTimeoutException", "LLMRateLimitException",
                      "LLMException"} :
              rag' = [QueryRaise(exc) EXCEPT !.llm_calls = rag.llm_calls + 1]
    /\ QueryFrame

SummaryInit ==
    /\ chat_history = 0
    /\ channels = {}
    /\ next_channel_id = 1
    /\ posts = {}
    /\ points \in DatedCollections
    /\ task = [p \in Tasks |-> IdleTask]
    /\ ncalls = 0
    /\ rag = IdleQuery
    /\ services = IdleServices
    /\ llm = IdleLLM
    /\ stream = IdleStream

\* SummaryRequest: two datetimes and the channels
SummaryCall ==
    /\ rag.pc = "idle"
    /\ \E op \in {"generate_summary", "agenerate_summary"},
          start_date \in Datetimes, end_date \in Datetimes,
          of_channels \in ChannelArgs :
           generate_summary(op, start_date, end_date, of_channels)

SummaryNext ==
    \/ SummaryCall
    \/ SummarySearch
    \/ SummaryGenerate

SummarySpec == SummaryInit /\ [][SummaryNext]_vars

\* -------------------------------------------------- summary: the prompt
\* The collections whose documents differ in what the prompt is made of: one
\* document per channel field (a handle, or none), dated or not, short, half
\* the budget with its tag, or longer than the budget.
HalfPart ==
    max_chars \div 2
        - part_chars([channel |-> "news_a", date |-> 1, content_chars |-> 0])

ContentChars == {1, HalfPart, max_chars}

PromptDocument(channel, date, chars) ==
    [id |-> DocId(channel, 1), channel |-> channel, message_id |-> 1,
     date |-> date, aware |-> FALSE, utcoffset |-> 0, content_chars |-> chars]

PromptCollections ==
    {{PromptDocument(c, date[c], chars[c]) : c \in H} :
        H \in SUBSET (Handles \cup {""}),
        date \in [Handles \cup {""} -> {NoDate, 1}],
        chars \in [Handles \cup {""} -> ContentChars]}

PromptInit ==
    /\ chat_history = 0
    /\ channels = {}
    /\ next_channel_id = 1
    /\ posts = {}
    /\ points \in PromptCollections
    /\ task = [p \in Tasks |-> IdleTask]
    /\ ncalls = 0
    /\ rag = IdleQuery
    /\ services = IdleServices
    /\ llm = IdleLLM
    /\ stream = IdleStream

\* SummaryRequest with naive datetimes
PromptCall ==
    /\ rag.pc = "idle"
    /\ \E op \in {"generate_summary", "agenerate_summary"},
          start_date \in 1..MaxDate, end_date \in 1..MaxDate,
          of_channels \in ChannelArgs :
           generate_summary(op, datetime(start_date, FALSE, 0),
                            datetime(end_date, FALSE, 0), of_channels)

PromptNext ==
    \/ PromptCall
    \/ SummarySearch
    \/ SummaryGenerate

PromptSpec == PromptInit /\ [][PromptNext]_vars

\* ------------------------------------------------- the lru_cache providers
\* functools.lru_cache looks the key up, and on a miss calls the wrapped
\* function without holding a lock; when the call returns it stores the
\* result unless the key was added during the call, and returns the result
\* of its own call either way.  Sync dependencies of requests run in the
\* worker threads of the pool, so first accesses can overlap.
ServicesFrame ==
    UNCHANGED <<chat_history, channels, next_channel_id, posts, points, task,
                ncalls, rag, llm, stream>>

\* the caller of provider f is handed instance
Receive(sv, f, instance) ==
    [sv EXCEPT !.received[f] = sv.received[f] \cup {instance}]

\* thread t calls provider f
Access(t, f) ==
    /\ services.phase = "running"
    /\ services.thread[t].pc = "idle"
    /\ services.naccess < MaxCalls
    /\ LET sv == [services EXCEPT !.naccess = services.naccess + 1]
           inner == "get_embedding_service"
       IN  IF sv.cache[f] # 0
           THEN services' = Receive(sv, f, sv.cache[f])
           ELSE IF f = "get_vectorstore_repository"
           THEN \* the wrapped function first calls get_embedding_service()
                IF sv.cache[inner] # 0
                THEN services' =
                         [Receive(sv, inner, sv.cache[inner]) EXCEPT
                            !.thread[t] = [IdleThread EXCEPT
                                             !.pc = "constructing",
                                             !.provider = f]]
                ELSE services' =
                         [sv EXCEPT
                            !.thread[t] = [IdleThread EXCEPT
                                             !.pc = "constructing",
                                             !.provider = inner,
                                             !.outer = f]]
           ELSE services' =
                    [sv EXCEPT
                       !.thread[t] = [IdleThread EXCEPT
                                        !.pc = "constructing",
                                        !.provider = f]]
    /\ ServicesFrame

\* the wrapped function of thread t returns a new object; the wrapper stores
\* it if the key is still missing, and returns it
Constructed(t) ==
    /\ services.thread[t].pc = "constructing"
    /\ LET f == services.thread[t].provider
           outer == services.thread[t].outer
           instance == services.constructed[f] + 1
           sv == [Receive(services, f, instance) EXCEPT
                    !.constructed[f] = instance,
                    !.cache[f] = IF services.cache[f] = 0 THEN instance
                                 ELSE services.cache[f]]
       IN  services' =
               [sv EXCEPT
                  !.thread[t] =
                      IF outer = "" THEN [IdleThread EXCEPT !.got = instance]
                      ELSE [IdleThread EXCEPT !.pc = "constructing",
                                              !.provider = outer]]
    /\ ServicesFrame

\* shutdown_services: the parser is fetched (and built if it is not cached),
\* disconnected, and the four caches are cleared
shutdown_services ==
    /\ services.phase = "running"
    /\ LET f == "get_channel_parser"
           sv == IF services.cache[f] # 0 THEN services
                 ELSE [services EXCEPT
                         !.constructed[f] = services.constructed[f] + 1]
       IN  services' = [sv EXCEPT !.phase = "stopped",
                                  !.cache = [g \in Providers |-> 0]]
    /\ ServicesFrame

\* startup_services ran before the first request: it caches the embedding
\* service, then the vector store, unless one of them raised (app.py logs
\* the exception and serves anyway)
Started(built) ==
    [IdleServices EXCEPT
       !.cache = [f \in Providers |-> IF f \in built THEN 1 ELSE 0],
       !.constructed = [f \in Providers |-> IF f \in built THEN 1 ELSE 0],
       !.received = [f \in Providers |-> IF f \in built THEN {1} ELSE {}]]

ServicesInit ==
    /\ chat_history = 0
    /\ channels = {}
    /\ next_channel_id = 1
    /\ posts = {}
    /\ points = {}
    /\ task = [p \in Tasks |-> IdleTask]
    /\ ncalls = 0
    /\ rag = IdleQuery
    /\ services \in {Started({}), Started({"get_embedding_service"}),
                     Started({"get_embedding_service",
                              "get_vectorstore_repository"})}
    /\ llm = IdleLLM
    /\ stream = IdleStream

ServicesNext ==
    \/ \E t \in Threads, f \in Providers : Access(t, f)
    \/ \E t \in Threads : Constructed(t)
    \/ shutdown_services

ServicesSpec == ServicesInit /\ [][ServicesNext]_vars

\* ------------------------------------------------------- the LLM service
LLMFrame ==
    UNCHANGED <<chat_history, channels, next_channel_id, posts, points, task,
                ncalls, rag, services, stream>>

\* __init__: self._max_retries = max_retries or settings.llm_max_retries
init_max_retries(max_retries, settings_llm_max_retries) ==
    IF max_retries # 0 THEN max_retries ELSE settings_llm_max_retries

\* if attempt == self._max_retries - 1
last_attempt_never(attempt, max_retries) == FALSE

last_attempt(attempt, max_retries) == attempt = max_retries - 1

\* what self._model.invoke / ainvoke can do: answer, or raise
\* httpx.TimeoutException, httpx.HTTPStatusError (429 or another status), or
\* any other Exception
Outcomes == {"response", "timeout", "status_429", "status_500", "exception"}

\* the call leaves the loop
LLMDone(outcomes, invoked, result) ==
    [llm EXCEPT !.pc = "done", !.outcomes = outcomes, !.invoked = invoked,
                !.result = result]

\* the except clause does not raise: sleep, then the next round of
\* "for attempt in range(self._max_retries)", or the raise after the loop
LLMRetry(outcomes, invoked) ==
    IF llm.attempt + 1 < llm.max_retries
    THEN [llm EXCEPT !.attempt = llm.attempt + 1, !.outcomes = outcomes,
                     !.invoked = invoked]
    ELSE LLMDone(outcomes, invoked, Raised("LLMException"))

\* generate / agenerate is called on a service built with max_retries
generate(op, max_retries, settings_llm_max_retries) ==
    /\ llm.pc = "idle"
    /\ LET n == init_max_retries(max_retries, settings_llm_max_retries)
           call == [IdleLLM EXCEPT !.op = op, !.max_retries = n]
       IN  IF 0 < n
           THEN llm' = [call EXCEPT !.pc = "attempt"]
           ELSE \* range(0) is empty: raise LLMException after the loop
                llm' = [call EXCEPT !.pc = "done",
                                    !.result = Raised("LLMException")]
    /\ LLMFrame

\* one round of the loop: the model is invoked and answers or raises
Invoke ==
    /\ llm.pc = "attempt"
    /\ \E outcome \in Outcomes :
          LET outcomes == Append(llm.outcomes, outcome)
              invoked == llm.invoked + 1
              last == last_attempt(llm.attempt, llm.max_retries)
          IN  llm' =
                  CASE outcome = "response" ->
                           LLMDone(outcomes, invoked, Returned(invoked))
                    [] outcome = "timeout" ->
                           IF last
                           THEN LLMDone(outcomes, invoked,
                                        Raised("LLMTimeoutException"))
                           ELSE LLMRetry(outcomes, invoked)
                    [] outcome = "status_429" ->
                           LLMDone(outcomes, invoked,
                                   Raised("LLMRateLimitException"))
                    [] outcome = "status_500" ->
                           LLMDone(outcomes, invoked, Raised("LLMException"))
                    [] outcome = "exception" ->
                           IF last
                           THEN LLMDone(outcomes, invoked,
                                        Raised("LLMException"))
                           ELSE LLMRetry(outcomes, invoked)
    /\ LLMFrame

LLMInit ==
    /\ chat_history = 0
    /\ channels = {}
    /\ next_channel_id = 1
    /\ posts = {}
    /\ points = {}
    /\ task = [p \in Tasks |-> IdleTask]
    /\ ncalls = 0
    /\ rag = IdleQuery
    /\ services = IdleServices
    /\ llm = IdleLLM
    /\ stream = IdleStream

\* the service is built with an explicit max_retries or none (0), under
\* settings whose LLM_MAX_RETRIES is the default or 0
GenerateCall ==
    /\ llm.pc = "idle"
    /\ \E op \in {"generate", "agenerate"}, max_retries \in 0..MaxRetries,
          settings_llm_max_retries \in {0, llm_max_retries} :
           generate(op, max_retries, settings_llm_max_retries)

LLMNext ==
    \/ GenerateCall
    \/ Invoke

\* the model answers or raises in the end (the request has a timeout), and
\* sleep returns
LLMSpec == LLMInit /\ [][LLMNext]_vars /\ WF_vars(Invoke)

\* --------------------------------------------------- the stream of posts
StreamFrame ==
    UNCHANGED <<chat_history, channels, next_channel_id, posts, points, task,
                ncalls, rag, services, llm>>

MessageIds == 1..MaxStreamMsg

\* a message of the channel: a service message, a single post
\* (media_group_id 0, falsy) or a member of an album
Message == [service : BOOLEAN, media_group_id : 0..MaxGroup]

ChannelMessages ==
    {m \in [MessageIds -> Message] :
        \A id \in MessageIds : m[id].service => m[id].media_group_id = 0}

\* the ids in the order client.get_chat_history hands them over; the order
\* is the server's, the loop assumes none
Histories ==
    {h \in [MessageIds -> MessageIds] :
        \A a, b \in MessageIds : h[a] = h[b] => a = b}

newest_first(h) == \A a, b \in MessageIds : a < b => h[a] > h[b]

\* get_chat_history(chat.id, limit=limit) hands over at most limit messages
handed_over(limit) ==
    IF limit < MaxStreamMsg THEN limit ELSE MaxStreamMsg

\* client.get_media_group(chat.id, message.id): every message of the
\* channel that carries the media_group_id of this one
get_media_group(messages, message_id) ==
    {id \in MessageIds :
        messages[id].media_group_id = messages[message_id].media_group_id}

\* min(group_messages, key=lambda m: m.id)
newest_member(group_messages) ==
    CHOOSE id \in group_messages : \A other \in group_messages : other <= id

root_message(group_messages) ==
    CHOOSE id \in group_messages : \A other \in group_messages : id <= other

\* Document(id=f"{channel.username}_{message_id_for_doc}", metadata with
\* message_id, url=f"https://t.me/{channel.username}/{message_id_for_doc}");
\* media_group_id records the album the document stands for (0: none)
StreamDocument(message_id_for_doc, media_group_id) ==
    [id |-> DocId(ChatUsername, message_id_for_doc),
     message_id |-> message_id_for_doc,
     url |-> <<"https://t.me/", ChatUsername, "/", message_id_for_doc>>,
     media_group_id |-> media_group_id]

\* parse_channel_posts_stream(channel, limit) is called
parse_channel_posts_stream(messages, history, limit) ==
    /\ stream.pc = "idle"
    /\ stream' = [IdleStream EXCEPT !.pc = "reading", !.messages = messages,
                                    !.history = history, !.limit = limit,
                                    !.i = 1]
    /\ StreamFrame

\* the loop goes on to the next message, or ends: the history is used up,
\* or "if yielded >= limit: break"
StreamAdvance(st) ==
    IF Len(st.yielded) >= st.limit \/ st.i >= handed_over(st.limit)
    THEN [st EXCEPT !.pc = "done", !.result = Returned(Len(st.yielded))]
    ELSE [st EXCEPT !.i = st.i + 1]

\* one round of "async for message in client.get_chat_history(...)"
ReadMessage ==
    /\ stream.pc = "reading"
    /\ LET message_id == stream.history[stream.i]
           message == stream.messages[message_id]
           gid == message.media_group_id
       IN  IF message.service
           THEN stream' = StreamAdvance(stream)
           ELSE IF gid # 0
           THEN IF gid \in stream.seen_media_groups
                THEN stream' = StreamAdvance(stream)
                ELSE \E fetched \in BOOLEAN :
                        LET group_messages ==
                                IF fetched
                                THEN get_media_group(stream.messages,
                                                     message_id)
                                ELSE {message_id}
                            document ==
                                StreamDocument(root_message(group_messages),
                                               gid)
                        IN  stream' =
                                StreamAdvance(
                                    [stream EXCEPT
                                       !.seen_media_groups = @ \cup {gid},
                                       !.fetch_failed =
                                           IF fetched THEN @
                                           ELSE @ \cup {gid},
                                       !.yielded = Append(@, document)])
           ELSE stream' =
                    StreamAdvance(
                        [stream EXCEPT
                           !.yielded =
                               Append(@, StreamDocument(message_id, 0))])
    /\ StreamFrame

\* get_chat_history raises in the middle of the history: the stream ends
\* with TelegramParserException after what it has yielded
HistoryRaises ==
    /\ stream.pc = "reading"
    /\ stream' = [stream EXCEPT !.pc = "done",
                                !.result = Raised("TelegramParserException")]
    /\ StreamFrame

StreamInit ==
    /\ chat_history = 0
    /\ channels = {}
    /\ next_channel_id = 1
    /\ posts = {}
    /\ points = {}
    /\ task = [p \in Tasks |-> IdleTask]
    /\ ncalls = 0
    /\ rag = IdleQuery
    /\ services = IdleServices
    /\ llm = IdleLLM
    /\ stream = IdleStream

StreamCall ==
    /\ stream.pc = "idle"
    /\ \E messages \in ChannelMessages, history \in Histories,
          limit \in 1..MaxStreamMsg :
           parse_channel_posts_stream(messages, history, limit)

StreamNext ==
    \/ StreamCall
    \/ ReadMessage
    \/ HistoryRaises

StreamSpec == StreamInit /\ [][StreamNext]_vars

\* ------------------------------------------------------ reading the stores
\* the row of the model's channel in a channels table (NoChannel when it
\* holds none)
RowOf(C) ==
    IF \E r \in C : r.username = ChatUsername
    THEN CHOOSE r \in C : r.username = ChatUsername
    ELSE NoChannel

\* the row as stored now
Stored == RowOf(channels)

\* the row a finished call found on arrival
StoredBefore(p) == RowOf(task[p].pre.channels)

PointsOf(P, username) == {q \in P : q.channel = username}

PostsOf(R, channel_id) == {r \in R : r.channel_id = channel_id}

\* the message ids the parser yields to a call that arrived at p's time
YieldedTo(p) ==
    {m \in 1..task[p].pre.chat_history :
        m > task[p].pre.chat_history - task[p].limit}

\* of those, the ones the ledger already held on arrival / did not hold
SeenBy(p) ==
    {m \in YieldedTo(p) :
        \E r \in PostsOf(task[p].pre.posts, StoredBefore(p).id) :
            r.message_id = m}

NewTo(p) == YieldedTo(p) \ SeenBy(p)

Done(p, op) == task[p].pc = "done" /\ task[p].op = op

DoneReturned(p, op) == Done(p, op) /\ task[p].result.kind = "returned"

DoneRaised(p, op) == Done(p, op) /\ task[p].result.kind = "raised"

\* the call runs _index_channel_posts
RunsPass(p) ==
    \/ task[p].op = "refresh_channel"
    \/ task[p].op = "add_channel" /\ task[p].index_posts

\* the pass of the call returned and so did the call
PassReturned(p) == RunsPass(p) /\ task[p].pc = "done"
                      /\ task[p].result.kind = "returned"

\* a VectorIndex document of the channel has its ledger row
HasRow(q) ==
    \E r \in PostsOf(posts, Stored.id) : r.message_id = q.message_id

\* message ids of the channel held by both stores P (points) and R (posts)
Committed(P, R, channel_id) ==
    {q.message_id : q \in {x \in PointsOf(P, ChatUsername) :
        \E r \in PostsOf(R, channel_id) : r.message_id = x.message_id}}

\* the latest publish date among committed documents (NoDate when none)
MaxCommitted(P, R, channel_id) ==
    IF Committed(P, R, channel_id) = {} THEN NoDate
    ELSE CHOOSE d \in {DateOf(m) : m \in Committed(P, R, channel_id)} :
             \A m \in Committed(P, R, channel_id) : DateOf(m) <= d

\* within a pass the VectorIndex write precedes the ledger insert: at the
\* insert the buffered documents are in the VectorIndex, and up to the
\* VectorIndex write none of them has a ledger row
VectorBeforeLedger ==
    \A p \in Tasks :
        /\ task[p].pc = "bulk_create"
              => Range(task[p].documents) \subseteq points
        /\ task[p].pc = "iterate"
              => \A i \in 1..Len(task[p].documents) :
                     ~ exists(task[p].channel.id,
                              task[p].documents[i].message_id)

C2_WatermarkMonotone ==
    \A p \in Tasks :
        ((Done(p, "add_channel") \/ Done(p, "refresh_channel"))
             /\ Stored # NoChannel /\ Stored.id = StoredBefore(p).id)
        => Stored.last_post_date >= StoredBefore(p).last_post_date

\* C3 (SerialSpec).  refresh_channel counts only new posts: with s yielded
\* posts already in the ledger and n not, a refresh that returns returns n
\* and has raised the stored posts_count by exactly n.
C3_RefreshCountsNew ==
    \A p \in Tasks :
        DoneReturned(p, "refresh_channel")
        => /\ task[p].result.value = Cardinality(NewTo(p))
           /\ Stored.id = StoredBefore(p).id
           /\ Stored.posts_count =
                  StoredBefore(p).posts_count + Cardinality(NewTo(p))

\* a refresh that met both seen and new posts has returned
C3_Witness ==
    \E p \in Tasks :
        /\ DoneReturned(p, "refresh_channel")
        /\ SeenBy(p) # {} /\ NewTo(p) # {}
        /\ StoredBefore(p).posts_count > 0

\* C4 (SerialSpec).  add_channel on a handle that already has a row: once
\* the handle is resolved the call, unless cancelled, raises
\* ChannelAlreadyExistsException, and
\* whichever way it ends it has written nothing: the channels table (still
\* one row for the handle), the ledger and the VectorIndex are as before.
C4_AddExisting ==
    \A p \in Tasks :
        (Done(p, "add_channel") /\ StoredBefore(p) # NoChannel)
        => /\ (task[p].channel_info # NoChannel
                   /\ task[p].result.exc # "CancelledError")
                => /\ task[p].result.kind = "raised"
                   /\ task[p].result.exc = "ChannelAlreadyExistsException"
           /\ channels = task[p].pre.channels
           /\ posts = task[p].pre.posts
           /\ points = task[p].pre.points

\* a second add_channel for the handle has been refused
C4_Witness ==
    \E p \in Tasks :
        /\ DoneRaised(p, "add_channel")
        /\ StoredBefore(p) # NoChannel
        /\ task[p].result.exc = "ChannelAlreadyExistsException"

\* C5 (SerialSpec).  A successful add_channel with index_posts against a
\* source yielding n posts stores the channel ACTIVE with posts_count = n,
\* n VectorIndex documents and n ledger rows for it.
C5_AddIndexesAll ==
    \A p \in Tasks :
        (DoneReturned(p, "add_channel") /\ task[p].index_posts)
        => LET n == Cardinality(YieldedTo(p))
           IN /\ Stored # NoChannel
              /\ Stored.id = task[p].channel.id
              /\ Stored.status = ACTIVE /\ task[p].channel.status = ACTIVE
              /\ Stored.posts_count = n /\ task[p].channel.posts_count = n
              /\ task[p].result.value = n
              /\ Cardinality(PointsOf(points, ChatUsername)) = n
              /\ Cardinality(PostsOf(posts, Stored.id)) = n

\* an add_channel that indexed every post of a two-post source has returned
C5_Witness ==
    \E p \in Tasks :
        /\ DoneReturned(p, "add_channel") /\ task[p].index_posts
        /\ Cardinality(YieldedTo(p)) = MaxMsg

\* C6 (SerialSpec).  Failed add_channel: when the indexing pass fails (it
\* is not cancelled) after the row was created, the row is kept with status
\* ERROR and the call raises TelegramParserException.
C6_FailedAddIsError ==
    \A p \in Tasks :
        (DoneRaised(p, "add_channel") /\ task[p].index_posts
             /\ task[p].channel.id # 0
             /\ task[p].result.exc # "CancelledError")
        => /\ Stored.id = task[p].channel.id
           /\ Stored.status = ERROR
           /\ task[p].result.exc = "TelegramParserException"

\* C7 (SerialSpec).  Failed refresh_channel: a refresh whose pass fails with
\* the source error leaves the channel's stored status ERROR.
C7_FailedRefreshIsError ==
    \A p \in Tasks :
        (DoneRaised(p, "refresh_channel")
             /\ task[p].result.exc = "TelegramParserException")
        => Stored.status = ERROR

\* C8 (Spec).  Status invariant, under any interleaving of requests: the
\* stored status is INDEXING only while the add_channel call that created
\* the row is in flight, and once the status of a row is no longer INDEXING
\* it never reverts to INDEXING.  Stated as the second half: no step takes a
\* row whose status is not INDEXING to INDEXING.
C8_IndexingOnlyInFlight ==
    [][\A r \in channels :
          r.status # INDEXING
          => \A r2 \in channels' : r2.id = r.id => r2.status # INDEXING]_vars

\* C9 (SerialSpec).  refresh_channel changes only posts_count and
\* last_post_date: a refresh that returns leaves status, username, title,
\* description and link of the stored row as they were before the call.
C9_RefreshFrame ==
    \A p \in Tasks :
        DoneReturned(p, "refresh_channel")
        => /\ Stored.id = StoredBefore(p).id
           /\ Stored.status = StoredBefore(p).status
           /\ Stored.username = StoredBefore(p).username
           /\ Stored.title = StoredBefore(p).title
           /\ Stored.description = StoredBefore(p).description
           /\ Stored.link = StoredBefore(p).link

\* a refresh of an ERROR channel has indexed new posts and returned
C9_Witness ==
    \E p \in Tasks :
        /\ DoneReturned(p, "refresh_channel")
        /\ StoredBefore(p).status = ERROR
        /\ task[p].result.value > 0

C11_PipelineInvariant ==
    /\ \A p \in Tasks :
          PassReturned(p)
          => \A q \in PointsOf(points, ChatUsername) : HasRow(q)
    /\ VectorBeforeLedger

\* C11 (SerialSpec), amended.  After every indexing pass that returns, every
\* VectorIndex document of the channel among the posts that pass was
\* yielded has a ledger row with the same (channel, message id); and the
\* VectorIndex write precedes the ledger insert within a pass.
C11_PipelineInvariantOfPass ==
    /\ \A p \in Tasks :
          PassReturned(p)
          => \A q \in PointsOf(points, ChatUsername) :
                 q.message_id \in YieldedTo(p) => HasRow(q)
    /\ VectorBeforeLedger

\* a pass has written documents and returned while a document of an earlier
\* failed pass, not yielded to it, has no ledger row
C11_Witness ==
    \E p \in Tasks :
        /\ PassReturned(p) /\ task[p].result.value > 0
        /\ \E q \in PointsOf(points, ChatUsername) :
               q.message_id \in YieldedTo(p) /\ HasRow(q)
        /\ \E q \in PointsOf(points, ChatUsername) : ~HasRow(q)

C13_WatermarkOnlyCommitted ==
    \A p \in Tasks :
        (RunsPass(p) /\ task[p].pre # NoSnapshot /\ Stored # NoChannel
             /\ StoredBefore(p).last_post_date
                    <= MaxCommitted(task[p].pre.points, task[p].pre.posts,
                                    StoredBefore(p).id))
        => /\ Stored.last_post_date
                  <= MaxCommitted(points, posts, Stored.id)
           /\ task[p].pre.points \subseteq points
           /\ task[p].pre.posts \subseteq posts

\* a pass was cancelled after its VectorIndex write and before its ledger
\* insert, on a channel that already had a committed document
C13_Witness ==
    \E p \in Tasks :
        /\ DoneRaised(p, "refresh_channel")
        /\ task[p].result.exc = "CancelledError"
        /\ StoredBefore(p).last_post_date # NoDate
        /\ StoredBefore(p).last_post_date
               <= MaxCommitted(task[p].pre.points, task[p].pre.posts,
                               StoredBefore(p).id)
        /\ \E q \in PointsOf(points, ChatUsername) :
               q \notin task[p].pre.points /\ ~HasRow(q)

\* C14 (SerialSpec).  Watermark-bounded streaming: the posts
\* parse_channel_posts_stream yields to a refresh_channel pass started with
\* offset_date = channel.last_post_date all have a publish date at or after
\* that date.
C14_StreamAtOrAfterWatermark ==
    \A p \in Tasks :
        (task[p].op = "refresh_channel" /\ task[p].pc = "iterate"
             /\ task[p].offset_date # NoDate)
        => \A i \in 1..Len(task[p].todo) :
               DateOf(task[p].todo[i]) >= task[p].offset_date

\* ------------------------------------------------------------ retrieval
\* a retrieve/aretrieve call has returned its list
RetrieveReturned ==
    /\ rag.op \in {"retrieve", "aretrieve"}
    /\ rag.pc = "done"
    /\ rag.result.kind = "returned"

ScoresOf(results) == [a \in 1..Len(results) |-> results[a].score]

NonIncreasing(scores) ==
    \A a, b \in 1..Len(scores) : a < b => scores[a] >= scores[b]

\* the documents of the collection whose channel is in the list
InChannels(list) == {d \in points : d.channel \in Range(list)}

\* the k highest scores of the documents D, highest first
RECURSIVE BestScores(_, _, _)
BestScores(D, similarity, k) ==
    IF k = 0 \/ D = {} THEN <<>>
    ELSE LET d == CHOOSE d \in D : \A e \in D : similarity[d] >= similarity[e]
         IN  <<similarity[d]>> \o BestScores(D \ {d}, similarity, k - 1)

\* C15: for every k >= 0 the caller passes, every channels argument and
\* every min_score >= 0, retrieve/aretrieve returns at most k results, each
\* with score >= min_score.
C15_RetrievalCap ==
    RetrieveReturned =>
        /\ Len(rag.results) <= rag.k_arg
        /\ \A a \in 1..Len(rag.results) : rag.results[a].score >= rag.min_score

\* C15 where it fails: k = 0 was passed and results came back
C15_Witness ==
    /\ RetrieveReturned
    /\ rag.k_arg = 0
    /\ rag.results # <<>>

\* C16: for a non-empty channels list retrieve issues one filtered search
\* per listed channel, each capped at k, and returns at most k results, each
\* from the top-k pool of a listed channel, by non-increasing score.
C16_FanOutMerge ==
    (RetrieveReturned /\ Truthy(rag.channels)) =>
        /\ Len(rag.all_results) <= Len(rag.channels.list) * rag.k_arg
        /\ Len(rag.results) <= rag.k_arg
        /\ \A a \in 1..Len(rag.results) :
              LET r == rag.results[a]
                  better == {d \in InChannels(<<r.document.channel>>) :
                                rag.similarity[d] > r.score}
              IN  /\ r.document \in InChannels(rag.channels.list)
                  /\ r.score = rag.similarity[r.document]
                  /\ Cardinality(better) < rag.k_arg
        /\ NonIncreasing(ScoresOf(rag.results))

\* C16 where it fails: a fan-out with k = 0 returned results
C16_Witness ==
    /\ RetrieveReturned
    /\ Truthy(rag.channels)
    /\ rag.k_arg = 0
    /\ rag.results # <<>>

\* C16 for the callers that pass k >= 1
C16_FanOutMergePositiveK ==
    rag.k_arg >= 1 => C16_FanOutMerge

Distinct(list) == \A a, b \in 1..Len(list) : a # b => list[a] # list[b]

\* C17: for a list of distinct channels the scores retrieve returns are the
\* k highest scores among the documents of the listed channels.
C17_NoStarvation ==
    (/\ RetrieveReturned
     /\ Truthy(rag.channels)
     /\ Distinct(rag.channels.list)
     /\ rag.min_score = 0) =>
        ScoresOf(rag.results)
            = BestScores(InChannels(rag.channels.list), rag.similarity,
                         rag.k_arg)

\* C17 where it fails: two distinct channels, k = 0, results came back
C17_Witness ==
    /\ RetrieveReturned
    /\ Len(rag.channels.list) > 1
    /\ Distinct(rag.channels.list)
    /\ rag.min_score = 0
    /\ rag.k_arg = 0
    /\ rag.results # <<>>

\* C17 for the callers that pass k >= 1
C17_NoStarvationPositiveK ==
    rag.k_arg >= 1 => C17_NoStarvation

\* ----------------------------------------------------------- completion
Completing == rag.op \in {"complete", "acomplete"}

\* C18: whenever the retrieval of complete/acomplete returns no results,
\* the response is the fixed no-information answer with no sources and the
\* generative model is not invoked during the call; a retrieval or generation
\* error is never turned into that answer.
C18_EmptyContextFallback ==
    Completing =>
        /\ (rag.pc \in {"context", "generate"} /\ rag.results = <<>>) =>
              /\ rag.pc = "context"
              /\ rag.llm_calls = 0
        /\ (/\ rag.pc = "done"
            /\ rag.results = <<>>
            /\ rag.result.exc # "VectorStoreException") =>
              /\ rag.result.kind = "returned"
              /\ rag.response = [answer |-> NoInformation, sources |-> <<>>]
              /\ rag.llm_calls = 0
        /\ rag.result.kind = "raised" => rag.response = NoResponse
        /\ rag.response.answer = NoInformation =>
              /\ rag.results = <<>>
              /\ rag.result.kind = "returned"

\* C18 happens: a completion over a collection that holds documents found
\* none for its channels and answered with the fixed answer
C18_Witness ==
    /\ Completing
    /\ rag.pc = "done"
    /\ points # {}
    /\ rag.results = <<>>
    /\ rag.response = [answer |-> NoInformation, sources |-> <<>>]
    /\ rag.llm_calls = 0

\* -------------------------------------------------------------- summary
Summarizing == rag.op \in {"generate_summary", "agenerate_summary"}

\* a <= b for two datetimes: as instants when both are aware, else by their
\* wall-clock readings
NotAfter(a, b) ==
    IF a.aware /\ b.aware
    THEN a.date - a.utcoffset <= b.date - b.utcoffset
    ELSE a.date <= b.date

\* the document has a publish timestamp t with start_date <= t <= end_date
InPeriod(document) ==
    /\ document.date # NoDate
    /\ NotAfter(rag.start_date, document)
    /\ NotAfter(document, rag.end_date)

\* C19: whatever pool the index returns, candidates without a publish
\* timestamp included, every document the summary counts in posts_processed,
\* lists through channels_included or puts in the prompt has a timestamp t
\* with start_date <= t <= end_date.
C19_PeriodFilter ==
    (Summarizing /\ rag.pc \in {"summarize", "done"}) =>
        \A a \in 1..Len(rag.filtered_results) :
            InPeriod(rag.filtered_results[a].document)

\* C19 where it fails: a summary was returned that counts a document
\* without a date
C19_Witness ==
    /\ Summarizing
    /\ rag.pc = "done"
    /\ rag.result.kind = "returned"
    /\ rag.response.posts_processed = Len(rag.filtered_results)
    /\ \E a \in 1..Len(rag.filtered_results) :
          rag.filtered_results[a].document.date = NoDate

\* C19 where it fails for dated documents alone: an aware document that is
\* before start_date as an instant was counted
C19_WitnessZone ==
    /\ Summarizing
    /\ rag.pc = "done"
    /\ rag.result.kind = "returned"
    /\ \E a \in 1..Len(rag.filtered_results) :
          LET document == rag.filtered_results[a].document
          IN  /\ document.date # NoDate
              /\ ~NotAfter(rag.start_date, document)

\* C20: when no candidate survives the period/channel filter, the summary
\* returned is the fixed no-news digest of the period with posts_processed
\* 0, no topics and no channels_included, and the generative model is not
\* invoked.
C20_SummaryEmptyFallback ==
    Summarizing =>
        /\ rag.pc = "summarize" => rag.filtered_results # <<>>
        /\ (/\ rag.pc = "done"
            /\ rag.filtered_results = <<>>
            /\ rag.result.exc # "VectorStoreException") =>
              /\ rag.result.kind = "returned"
              /\ rag.response =
                    NoNews(<<rag.start_date.date, rag.end_date.date>>)
              /\ rag.llm_calls = 0

\* C20 happens: candidates came back from the search, none survived the
\* filter, and the fixed digest was returned
C20_Witness ==
    /\ Summarizing
    /\ rag.pc = "done"
    /\ rag.results # <<>>
    /\ rag.filtered_results = <<>>
    /\ rag.response.posts_processed = 0
    /\ rag.response.channels_included = <<>>
    /\ rag.llm_calls = 0

\* ------------------------------------------------------- summary prompt
\* the summary has built its prompt
PromptBuilt ==
    /\ Summarizing
    /\ rag.pc \in {"summarize", "done"}
    /\ rag.filtered_results # <<>>

\* the summary has returned a generated digest
SummaryReturned ==
    /\ Summarizing
    /\ rag.pc = "done"
    /\ rag.result.kind = "returned"
    /\ rag.filtered_results # <<>>

\* the parts are the documents of a prefix of the filtered results, in order
IsPrefix(parts, results) ==
    /\ Len(parts) <= Len(results)
    /\ \A a \in 1..Len(parts) : parts[a] = results[a].document

\* C21: for every filtered list, the prompt body built by
\* _prepare_news_content has at most max_chars characters and consists of a
\* prefix of the filtered documents in retrieval order.
C21_CharacterBudget ==
    PromptBuilt =>
        /\ rag.news_content.chars <= max_chars
        /\ IsPrefix(rag.news_content.content_parts, rag.filtered_results)

\* C21 where it fails: a prompt body longer than max_chars
C21_Witness ==
    /\ PromptBuilt
    /\ rag.news_content.chars > max_chars

\* C21, the half that holds: the body is a prefix of the filtered documents
C21_PrefixInOrder ==
    PromptBuilt =>
        IsPrefix(rag.news_content.content_parts, rag.filtered_results)

\* C22: posts_processed of the returned summary equals the number of
\* documents placed in the prompt body, also when the filtered set exceeds
\* the budget.
C22_DocumentCount ==
    SummaryReturned =>
        rag.response.posts_processed = Len(rag.news_content.content_parts)

\* C22 where it fails: a summary over dated documents of known channels
\* returned that counts more documents than its prompt holds
C22_Witness ==
    /\ SummaryReturned
    /\ \A a \in 1..Len(rag.filtered_results) :
          /\ rag.filtered_results[a].document.date # NoDate
          /\ rag.filtered_results[a].document.channel # ""
    /\ rag.response.posts_processed > Len(rag.news_content.content_parts)

\* C23: given a non-empty channels list, every document of the filtered set
\* has its channel in the list, candidates with an empty channel included,
\* and channels_included is a duplicate-free subset of the list.
C23_ChannelAllowList ==
    (Summarizing /\ Truthy(rag.channels)) =>
        /\ \A a \in 1..Len(rag.filtered_results) :
              rag.filtered_results[a].document.channel
                  \in Range(rag.channels.list)
        /\ SummaryReturned =>
              /\ Distinct(rag.response.channels_included)
              /\ Range(rag.response.channels_included)
                    \subseteq Range(rag.channels.list)

\* C23 where it fails: a summary with a channels list returned, and its
\* filtered set holds a document without a channel
C23_Witness ==
    /\ SummaryReturned
    /\ Truthy(rag.channels)
    /\ \E a \in 1..Len(rag.filtered_results) :
          rag.filtered_results[a].document.channel = ""

\* C23, the half that holds: channels_included is a duplicate-free subset
\* of the list
C23_IncludedFromList ==
    (SummaryReturned /\ Truthy(rag.channels)) =>
        /\ Distinct(rag.response.channels_included)
        /\ Range(rag.response.channels_included)
              \subseteq Range(rag.channels.list)

\* ------------------------------------------------------------ providers
\* C24: between startup and shutdown, however the first accesses of several
\* threads interleave, each process-wide client is constructed at most once
\* and every caller receives the same instance.
C24_LazySingletons ==
    services.phase = "running" =>
        \A f \in Providers :
            /\ services.constructed[f] <= 1
            /\ Cardinality(services.received[f]) <= 1

\* C24 where it fails: before shutdown, two callers of get_llm_service hold
\* different objects
C24_Witness ==
    /\ services.phase = "running"
    /\ services.constructed["get_llm_service"] = 2
    /\ Cardinality(services.received["get_llm_service"]) = 2

\* --------------------------------------------------- concurrent refreshes
\* Both requests are refresh_channel calls that have finished.  The first
\* arrived while nothing else was in flight, the other after it, and the
\* history is still the one the first found.  Neither was stopped from
\* outside (a failing parser or store, a cancelled request): each returned
\* or lost the race for the unique constraint.
TwoRefreshesDone ==
    /\ \A p \in Tasks :
          /\ Done(p, "refresh_channel")
          /\ task[p].channel # NoChannel
          /\ task[p].pre # NoSnapshot =>
                task[p].pre.chat_history = chat_history
          /\ \/ task[p].result.kind = "returned"
             \/ task[p].result.exc = "IntegrityError"
    /\ \E p \in Tasks : task[p].pre # NoSnapshot
    /\ Stored # NoChannel

\* the message ids the source yielded to the call of p
YieldedOf(p) == {m \in 1..chat_history : m > chat_history - task[p].limit}

YieldedToBoth == UNION {YieldedOf(p) : p \in Tasks}

\* C25: however two refresh_channel calls on the channel interleave over the
\* same source content, once both have finished the VectorIndex and the
\* ledger each hold exactly one entry for every message the source yielded.
C25_RefreshConvergence ==
    TwoRefreshesDone =>
        \A m \in YieldedToBoth :
            /\ Cardinality({q \in PointsOf(points, ChatUsername) :
                               q.message_id = m}) = 1
            /\ Cardinality({r \in PostsOf(posts, Stored.id) :
                               r.message_id = m}) = 1

\* C25 where it fails: both refreshes finished, one lost the race, and a
\* message it yielded is in the VectorIndex without a ledger row
C25_Witness ==
    /\ TwoRefreshesDone
    /\ \E p \in Tasks : task[p].result.exc = "IntegrityError"
    /\ \E m \in YieldedToBoth :
          /\ \E q \in PointsOf(points, ChatUsername) : q.message_id = m
          /\ ~ \E r \in PostsOf(posts, Stored.id) : r.message_id = m

\* --------------------------------------------------------- LLM retries
\* the outcome of a finished call whose rounds went as outcomes
LLMExpected(outcomes, max_retries) ==
    LET n == Len(outcomes)
    IN  IF n = 0 THEN "LLMException"
        ELSE CASE outcomes[n] = "response" -> ""
               [] outcomes[n] = "timeout" -> "LLMTimeoutException"
               [] outcomes[n] = "status_429" -> "LLMRateLimitException"
               [] outcomes[n] = "status_500" -> "LLMException"
               [] outcomes[n] = "exception" -> "LLMException"

\* the safety half of the protocol
LLMProtocol ==
    /\ llm.invoked <= llm.max_retries
    /\ llm.invoked = Len(llm.outcomes)
    /\ \A a \in 1..Len(llm.outcomes) - 1 :
          llm.outcomes[a] \in {"timeout", "exception"}
    /\ llm.pc = "attempt" =>
          /\ llm.invoked < llm.max_retries
          /\ \A a \in 1..Len(llm.outcomes) :
                llm.outcomes[a] \in {"timeout", "exception"}
    /\ llm.pc = "done" =>
          /\ llm.result.exc = LLMExpected(llm.outcomes, llm.max_retries)
          /\ llm.result.kind = "returned"
                <=> (llm.outcomes # <<>>
                       /\ llm.outcomes[Len(llm.outcomes)] = "response")
          /\ (llm.outcomes # <<>>
                /\ llm.outcomes[Len(llm.outcomes)] \in {"timeout", "exception"})
                => llm.invoked = llm.max_retries
          /\ llm.outcomes = <<>> => llm.max_retries = 0

\* C26: generate/agenerate invokes the model at most max_retries times and
\* always terminates; it returns the first successful response; a timeout
\* or other non-HTTP failure is retried until the last attempt, where a
\* timeout raises LLMTimeoutException and any other failure LLMException; an
\* HTTP status error is never retried (429 raises LLMRateLimitException, any
\* other status LLMException at once).
C26_RetryProtocol ==
    /\ []LLMProtocol
    /\ (llm.pc = "attempt") ~> (llm.pc = "done")

\* C26 happens: a call retried a timeout and an exception up to its last
\* attempt, where a timeout ended it with LLMTimeoutException
C26_Witness ==
    /\ llm.pc = "done"
    /\ llm.max_retries = llm_max_retries
    /\ llm.outcomes = <<"timeout", "exception", "timeout">>
    /\ llm.result.exc = "LLMTimeoutException"

\* the members of album g in the channel the stream reads
MembersOf(g) ==
    {id \in MessageIds : stream.messages[id].media_group_id = g}

\* the documents the stream has yielded for album g
YieldedFor(g) ==
    {n \in 1..Len(stream.yielded) : stream.yielded[n].media_group_id = g}

Canonical(document, g) ==
    LET least == CHOOSE id \in MembersOf(g) :
                     \A other \in MembersOf(g) : id <= other
    IN  /\ document.message_id = least
        /\ document.id = DocId(ChatUsername, least)
        /\ document.url = <<"https://t.me/", ChatUsername, "/", least>>

\* C27: within one stream every album the stream has met has yielded
\* exactly one document, and that document carries the least message id of
\* the album (in its message id, its id and its permalink), whichever
\* member was met first and whether or not fetching the album succeeded.
C27_AlbumCanonicalisation ==
    \A g \in stream.seen_media_groups :
        /\ Cardinality(YieldedFor(g)) = 1
        /\ \A n \in YieldedFor(g) : Canonical(stream.yielded[n], g)

\* a finished stream over a newest-first history met an album of two
\* members whose fetch failed, and yielded the member it met
C27_Witness ==
    /\ stream.pc = "done"
    /\ newest_first(stream.history)
    /\ \E g \in stream.fetch_failed :
          /\ Cardinality(MembersOf(g)) = 2
          /\ \E n \in YieldedFor(g) :
                stream.yielded[n].message_id =
                    newest_member(MembersOf(g))

\* the part of C27 the loop keeps: one document per album met, canonical
\* whenever get_media_group answered, and else the member that was met
C27_CanonicalWhenFetched ==
    \A g \in stream.seen_media_groups :
        /\ Cardinality(YieldedFor(g)) = 1
        /\ \A n \in YieldedFor(g) :
              IF g \in stream.fetch_failed
              THEN stream.yielded[n].message_id \in MembersOf(g)
              ELSE Canonical(stream.yielded[n], g)

\* ---------------------------------------------------- the stored count
\* no ingestion operation is in flight
NoneInFlight == \A p \in Tasks : task[p].pc \in {"idle", "done"}

\* every request made so far is still in its slot, and each is an
\* add_channel or a refresh_channel: no remove_channel has run
OnlyAddAndRefresh ==
    /\ ncalls = Cardinality({p \in Tasks : ~Free(p)})
    /\ \A p \in Tasks :
          task[p].op \in {"none", "add_channel", "refresh_channel"}

LedgerRows == Cardinality(PostsOf(posts, Stored.id))

CountMatchesLedger ==
    (OnlyAddAndRefresh /\ NoneInFlight /\ Stored # NoChannel)
        => Stored.posts_count = LedgerRows

CountNeverDecreases ==
    (OnlyAddAndRefresh' /\ Stored # NoChannel /\ Stored' # NoChannel
        /\ Stored'.id = Stored.id)
        => Stored'.posts_count >= Stored.posts_count

\* C28: after any sequence or interleaving of add_channel and
\* refresh_channel calls on the channel, calls that fail part-way and
\* concurrent refreshes included, whenever no ingestion operation is in
\* flight the stored posts_count equals the number of ledger rows of the
\* channel, and the stored posts_count never decreases.
C28_PostsCountMatchesLedger ==
    /\ []CountMatchesLedger
    /\ [][CountNeverDecreases]_vars

\* C28 where it fails without any failure: an add_channel and a
\* refresh_channel both returned, and the stored count is below the number
\* of ledger rows
C28_Witness ==
    /\ OnlyAddAndRefresh
    /\ DoneReturned(1, "add_channel")
    /\ DoneReturned(2, "refresh_channel")
    /\ Stored # NoChannel
    /\ Stored.posts_count < LedgerRows

\* C28 where it fails in a single call: the pass of an add_channel wrote its
\* ledger rows, a later write of the channel row failed, and the stored
\* count is still 0
C28_WitnessFailedAdd ==
    /\ ncalls = 1
    /\ DoneRaised(1, "add_channel")
    /\ task[1].result.exc = "PendingRollbackError"
    /\ Stored # NoChannel
    /\ Stored.posts_count = 0
    /\ LedgerRows > 0

\* ------------------------------------------------------ duplicate results
\* the retrieval of the question has handed over its results
ResultsHandedOver ==
    /\ rag.op \in {"retrieve", "aretrieve", "complete", "acomplete"}
    /\ rag.pc \in {"context", "generate", "done"}
    /\ rag.result.exc # "VectorStoreException"

\* document ids of the results, in order
IdsOf(results) == [a \in 1..Len(results) |-> results[a].document.id]

\* the posts a response cites, in order
CitedPosts(sources) ==
    [a \in 1..Len(sources) |-> <<sources[a].channel, sources[a].post_id>>]

\* C29: for every question, k and channels list, a list naming one channel
\* more than once included, retrieve / aretrieve never returns two results
\* with the same document id, so a completion never cites a post twice.
C29_NoDuplicateResults ==
    ResultsHandedOver =>
        /\ Distinct(IdsOf(rag.results))
        /\ Distinct(CitedPosts(rag.response.sources))

\* C29 where it fails: a completion for a list naming one channel twice got
\* the same document twice from its retrieval and cites the post twice
C29_Witness ==
    /\ Completing
    /\ rag.pc = "done"
    /\ rag.result.kind = "returned"
    /\ ~Distinct(rag.channels.list)
    /\ Len(rag.results) = 2
    /\ rag.results[1].document.id = rag.results[2].document.id
    /\ Len(rag.response.sources) = 2
    /\ CitedPosts(rag.response.sources)[1] = CitedPosts(rag.response.sources)[2]

\* the part of C29 the code keeps: without a list, or with a list that names
\* no channel twice, the results and the cited posts are distinct
C29_NoDuplicatesDistinctList ==
    (ResultsHandedOver /\ (Truthy(rag.channels) => Distinct(rag.channels.list)))
        => /\ Distinct(IdsOf(rag.results))
           /\ Distinct(CitedPosts(rag.response.sources))

\* ------------------------------------------------- remove against refresh
\* a remove_channel in slot p and a refresh_channel in slot q have both
\* finished, the remove returned, the refresh had found the channel, and the
\* earlier of the two arrived while nothing else was in flight: the
\* add_channel that created the channel was over by then
RemoveAndRefreshDone(p, q) ==
    /\ DoneReturned(p, "remove_channel")
    /\ Done(q, "refresh_channel")
    /\ task[q].channel # NoChannel
    /\ task[q].channel.id = task[p].channel.id
    /\ task[p].pre # NoSnapshot \/ task[q].pre # NoSnapshot

\* C30: however a remove_channel and a refresh_channel on the same channel
\* interleave, once both have finished and the remove has succeeded the
\* VectorIndex holds no document of the removed channel and the ledger no
\* row of it.
C30_NoOrphansAfterRemove ==
    \A p, q \in Tasks :
        RemoveAndRefreshDone(p, q) =>
            /\ PointsOf(points, task[p].channel.username) = {}
            /\ PostsOf(posts, task[p].channel.id) = {}

\* C30 where it fails: the refresh arrived at an ACTIVE channel with an
\* empty VectorIndex, neither call was stopped from outside, the channel row
\* is gone and the VectorIndex holds a document of the channel
C30_Witness ==
    \E p, q \in Tasks :
        /\ RemoveAndRefreshDone(p, q)
        /\ task[q].result.exc \notin
               {"CancelledError", "OperationalError", "VectorStoreException",
                "TelegramParserException", "PendingRollbackError"}
        /\ StoredBefore(q) # NoChannel
        /\ StoredBefore(q).status = ACTIVE
        /\ task[q].pre.points = {}
        /\ Stored = NoChannel
        /\ PointsOf(points, task[p].channel.username) # {}

\* the part of C30 the code keeps: the ledger holds no row of the removed
\* channel
C30_NoLedgerRowsAfterRemove ==
    \A p, q \in Tasks :
        RemoveAndRefreshDone(p, q) =>
            PostsOf(posts, task[p].channel.id) = {}

====
